---- MODULE Spec2Model ----
(***************************************************************************)
(* GSeal Lite mock server (src/gseal_lite_server.py).                      *)
(*                                                                         *)
(* Three FastAPI endpoints hosted by one process and one event loop:       *)
(*   POST /start-test            start_test                                *)
(*   POST /mock-gseal-api        mock_gseal_api                            *)
(*   POST /app-webhook-listener  app_webhook_listener                      *)
(* and one background coroutine, dispatch_webhook, that mock_gseal_api     *)
(* detaches with asyncio.create_task.                                      *)
(*                                                                         *)
(* JSON values are tagged records: Null, Str(s), Obj(m) where m is a       *)
(* function from key strings to JSON values.  A request body is a JSON     *)
(* value or Absent (a request without a body).  Every client call has a    *)
(* slot i \in Req; the slot also names the Mock API call and the           *)
(* Dispatcher task the call gives rise to.  A step of the model is what    *)
(* one coroutine does between two suspension points (await).               *)
(***************************************************************************)
EXTENDS Integers, Sequences, FiniteSets, TLC

\* Number of client calls (slots) of a run of the model.
MaxReq == 2

\* asyncio.sleep(1): the Dispatcher's delay, in time units.
Delay == 1

Req == 1..MaxReq

-----------------------------------------------------------------------------
\* JSON values

Null == [t |-> "null"]
Absent == [t |-> "absent"]
Str(s) == [t |-> "str", s |-> s]
Obj(m) == [t |-> "obj", m |-> m]
\* A response body that is not JSON (response.json() raises ValueError).
Text(s) == [t |-> "text", s |-> s]

IsStr(v) == v.t = "str"
IsObj(v) == v.t = "obj"

EmptyMap == [k \in {} |-> Null]

\* m with key k bound to v only when the key is wanted.
Restrict(m, K) == [k \in (DOMAIN m) \cap K |-> m[k]]

\* dict.get(k, d) on the mapping of a JSON object.
Get(m, k, d) == IF k \in DOMAIN m THEN m[k] ELSE d

-----------------------------------------------------------------------------
\* Pydantic models.  A model instance is a mapping from its field names to
\* JSON values; validation yields [ok, model].

\* StartTestRequest.mock_payload with the default of MockGsealRequest:
\* default_factory=dict.
DefaultMockPayload_dict == EmptyMap

DefaultMockPayload == [document_id |-> Str("demo-document")]

\* class StartTestRequest: both fields are optional in the body; extra keys
\* are ignored; mock_payload must be a mapping (None is rejected),
\* webhook_payload a mapping or None.
StartTestRequest(m) ==
    LET mp == Get(m, "mock_payload", Obj(DefaultMockPayload))
        wp == Get(m, "webhook_payload", Null)
    IN  [ok |-> IsObj(mp) /\ (wp = Null \/ IsObj(wp)),
         model |-> [mock_payload |-> mp, webhook_payload |-> wp]]

\* class MockGsealRequest.
MockGsealRequest(m) ==
    LET mp == Get(m, "mock_payload", Obj(EmptyMap))
        wp == Get(m, "webhook_payload", Null)
    IN  [ok |-> IsObj(mp) /\ (wp = Null \/ IsObj(wp)),
         model |-> [mock_payload |-> mp, webhook_payload |-> wp]]

\* class WebhookNotification.
WebhookNotification(m) ==
    LET ev == Get(m, "event", Str("mock.document.completed"))
        da == Get(m, "data", Obj(EmptyMap))
    IN  [ok |-> IsStr(ev) /\ IsObj(da),
         model |-> [event |-> ev, data |-> da]]

\* _model_to_dict leaving out None at every depth: also the null values inside
\* a field that is a mapping.
model_to_dict_deep(model) ==
    [f \in {g \in DOMAIN model : model[g] # Null} |->
        IF IsObj(model[f])
        THEN Obj(Restrict(model[f].m, {k \in DOMAIN model[f].m : model[f].m[k] # Null}))
        ELSE model[f]]

\* _model_to_dict: model_dump(exclude_none=True) / dict(exclude_none=True).
\* Fields whose value is None are left out; the values inside a Dict[str, Any]
\* field are kept as they are.
model_to_dict(model) ==
    Restrict(model, {f \in DOMAIN model : model[f] # Null})

-----------------------------------------------------------------------------
\* HTTP responses

Response(code, body) == [code |-> code, body |-> body]
NoResp == Response(0, Null)

\* FastAPI's answer to a body that fails validation.
ValidationError == Response(422, Obj([detail |-> Str("validation error")]))
\* The framework's answer to an exception a handler does not catch.
InternalServerError == Response(500, Text("Internal Server Error"))
\* A Mock API that is not available.
ServiceUnavailable == Response(503, Text("Service Unavailable"))

\* raise_for_status left out: no response counts as an error.
IsError_never(resp) == FALSE

\* httpx: Response.raise_for_status() raises for these.
IsError(resp) == resp.code >= 400

-----------------------------------------------------------------------------
\* Request bodies the clients send

Doc1 == [document_id |-> Str("doc-1")]
\* A payload with the shape of a WebhookNotification.
FullNotification == [event |-> Str("x"), data |-> Obj([a |-> Str("1")])]
\* A payload the Listener rejects: event is not a string.
BadShape == [event |-> Null, data |-> Obj(EmptyMap)]

StartBodies ==
    { Absent,
      Obj(EmptyMap),
      Obj([webhook_payload |-> Null]),
      Obj([mock_payload |-> Obj(Doc1), webhook_payload |-> Obj(BadShape)]),
      Obj([mock_payload |-> Null]) }

MockBodies ==
    { Absent,
      Obj(EmptyMap),
      Obj([mock_payload |-> Obj(Doc1), webhook_payload |-> Null]),
      Obj([mock_payload |-> Obj(Doc1), webhook_payload |-> Obj(EmptyMap)]) }

ListenerBodies ==
    { Obj(FullNotification),
      Obj(EmptyMap),
      Obj([event |-> Str("x")]),
      Obj([data |-> Obj([a |-> Null])]),
      Obj([event |-> Str("x"), data |-> Obj(EmptyMap), extra |-> Str("y")]),
      Obj(BadShape) }

-----------------------------------------------------------------------------
\* State

VARIABLES
    entry,       \* entry[i]: the endpoint client call i was made to, or "none"
    st_req,      \* start_test: the body of the call
    st_pc,       \* start_test: "idle", "awaiting" (in client.post), "done"
    st_posts,    \* start_test: POSTs issued to /mock-gseal-api
    st_resp,     \* start_test: the response to the caller
    mock_req,    \* the request of start_test on its way to /mock-gseal-api, or NoReq
    mock_recv,   \* the bodies /mock-gseal-api received, in order
    mock_resp,   \* the response of /mock-gseal-api
    task_pc,     \* dispatch_webhook: "none", "created", "sleeping", "posting",
                 \*   "done", "failed"
    task_arg,    \* dispatch_webhook: its webhook_payload argument
    slept,       \* dispatch_webhook: time spent in asyncio.sleep
    task_posts,  \* dispatch_webhook: POSTs issued to /app-webhook-listener
    task_log,    \* dispatch_webhook: the status and payload it logged
    lst_req,     \* the request of a task on its way to /app-webhook-listener, or NoReq
    lst_recv,    \* the bodies /app-webhook-listener received, in order
    lst_resp     \* the response of /app-webhook-listener

vars == <<entry, st_req, st_pc, st_posts, st_resp, mock_req, mock_recv, mock_resp,
          task_pc, task_arg, slept, task_posts, task_log,
          lst_req, lst_recv, lst_resp>>

st_vars == <<st_req, st_pc, st_posts, st_resp>>
mock_vars == <<mock_req, mock_recv, mock_resp>>
task_vars == <<task_pc, task_arg, slept, task_posts, task_log>>
lst_vars == <<lst_req, lst_recv, lst_resp>>

NoReq == [t |-> "noreq"]
NoLog == [status |-> 0, payload |-> Null]

Init ==
    /\ entry = [i \in Req |-> "none"]
    /\ st_req = [i \in Req |-> NoReq]
    /\ st_pc = [i \in Req |-> "idle"]
    /\ st_posts = [i \in Req |-> 0]
    /\ st_resp = [i \in Req |-> NoResp]
    /\ mock_req = [i \in Req |-> NoReq]
    /\ mock_recv = [i \in Req |-> <<>>]
    /\ mock_resp = [i \in Req |-> NoResp]
    /\ task_pc = [i \in Req |-> "none"]
    /\ task_arg = [i \in Req |-> EmptyMap]
    /\ slept = [i \in Req |-> 0]
    /\ task_posts = [i \in Req |-> 0]
    /\ task_log = [i \in Req |-> NoLog]
    /\ lst_req = [i \in Req |-> NoReq]
    /\ lst_recv = [i \in Req |-> <<>>]
    /\ lst_resp = [i \in Req |-> NoResp]

\* Client calls take the slots in the order they arrive.
Free(i) == entry[i] = "none" /\ (IF i = 1 THEN TRUE ELSE entry[i - 1] # "none")

-----------------------------------------------------------------------------
\* POST /start-test

\* FastAPI's validation of the optional body of start_test: [ok, payload],
\* payload None (Null) when the call has no body.
StartTestBody(body) ==
    IF body = Absent THEN [ok |-> TRUE, model |-> Null]
    ELSE IF IsObj(body) THEN StartTestRequest(body.m)
    ELSE [ok |-> FALSE, model |-> Null]

\* payload_dict serializing only a payload the caller sent: a call without
\* body forwards the empty mapping, no default in it.
payload_dict_exclude_unset(payload) ==
    IF payload = Null THEN EmptyMap ELSE model_to_dict(payload)

\* payload = payload or StartTestRequest(); payload_dict = _model_to_dict(payload)
payload_dict(payload) ==
    model_to_dict(IF payload = Null THEN StartTestRequest(EmptyMap).model ELSE payload)

\* start_test with a second POST to the Mock API after the first: a retry of
\* the internal call.
start_test_posts_twice(i, body) ==
    /\ Free(i)
    /\ entry' = [entry EXCEPT ![i] = "start-test"]
    /\ st_req' = [st_req EXCEPT ![i] = body]
    /\ LET v == StartTestBody(body)
       IN  IF v.ok
           THEN /\ st_pc' = [st_pc EXCEPT ![i] = "awaiting"]
                /\ st_posts' = [st_posts EXCEPT ![i] = @ + 2]
                /\ mock_req' = [mock_req EXCEPT ![i] = Obj(payload_dict(v.model))]
                /\ st_resp' = st_resp
           ELSE /\ st_pc' = [st_pc EXCEPT ![i] = "done"]
                /\ st_resp' = [st_resp EXCEPT ![i] = ValidationError]
                /\ UNCHANGED <<st_posts, mock_req>>
    /\ UNCHANGED <<mock_recv, mock_resp, task_vars, lst_vars>>

\* A client's call arrives.  A body that fails validation is answered 422 and
\* the handler does not run; otherwise the handler runs up to await client.post.
start_test(i, body) ==
    /\ Free(i)
    /\ entry' = [entry EXCEPT ![i] = "start-test"]
    /\ st_req' = [st_req EXCEPT ![i] = body]
    /\ LET v == StartTestBody(body)
       IN  IF v.ok
           THEN /\ st_pc' = [st_pc EXCEPT ![i] = "awaiting"]
                /\ st_posts' = [st_posts EXCEPT ![i] = @ + 1]
                /\ mock_req' = [mock_req EXCEPT ![i] = Obj(payload_dict(v.model))]
                /\ st_resp' = st_resp
           ELSE /\ st_pc' = [st_pc EXCEPT ![i] = "done"]
                /\ st_resp' = [st_resp EXCEPT ![i] = ValidationError]
                /\ UNCHANGED <<st_posts, mock_req>>
    /\ UNCHANGED <<mock_recv, mock_resp, task_vars, lst_vars>>

\* start_test returning only the webhook payload of the Mock API's response.
start_test_result_payload_only(response) ==
    Response(200, Obj([status |-> Str("mock_request_dispatched"),
                       mock_api_response |-> Get(response.body.m, "webhook_payload", Null)]))

\* The value start_test returns for a Mock API response that is no error.
start_test_result(response) ==
    Response(200, Obj([status |-> Str("mock_request_dispatched"),
                       mock_api_response |-> response.body]))

\* client.post has returned: response.raise_for_status(), then the return.
\* The HTTPStatusError is not caught, so the caller gets the framework's 500.
start_test_return(i) ==
    /\ st_pc[i] = "awaiting"
    /\ mock_resp[i] # NoResp
    /\ st_pc' = [st_pc EXCEPT ![i] = "done"]
    /\ st_resp' = [st_resp EXCEPT ![i] =
                     IF IsError(mock_resp[i]) THEN InternalServerError
                     ELSE start_test_result(mock_resp[i])]
    /\ UNCHANGED <<entry, st_req, st_posts, mock_vars, task_vars, lst_vars>>

-----------------------------------------------------------------------------
\* POST /mock-gseal-api

\* webhook_payload synthesizing from request_dict, the serialized request, in
\* place of request.mock_payload.
webhook_payload_request_dict(request) ==
    IF request.webhook_payload # Null
    THEN request.webhook_payload.m
    ELSE [event |-> Str("mock.document.completed"),
          data |-> Obj([status |-> Str("completed"),
                        original_payload |-> Obj(model_to_dict(request))])]

\* webhook_payload testing "if request.webhook_payload:" in place of
\* "is not None": an empty override counts as none.
webhook_payload_truthy(request) ==
    IF request.webhook_payload # Null /\ request.webhook_payload # Obj(EmptyMap)
    THEN request.webhook_payload.m
    ELSE [event |-> Str("mock.document.completed"),
          data |-> Obj([status |-> Str("completed"),
                        original_payload |-> request.mock_payload])]

\* The webhook payload mock_gseal_api chooses for a validated request.
webhook_payload(request) ==
    IF request.webhook_payload # Null
    THEN request.webhook_payload.m
    ELSE [event |-> Str("mock.document.completed"),
          data |-> Obj([status |-> Str("completed"),
                        original_payload |-> request.mock_payload])]

\* The value mock_gseal_api returns.
mock_gseal_api_result(wp) ==
    Response(200, Obj([status |-> Str("webhook_scheduled"),
                       webhook_payload |-> Obj(wp)]))

\* FastAPI's validation of the body of mock_gseal_api.
MockGsealBody(body) ==
    IF IsObj(body) THEN MockGsealRequest(body.m) ELSE [ok |-> FALSE, model |-> Null]

\* mock_gseal_api running the dispatch itself, "await dispatch_webhook(...)",
\* in place of asyncio.create_task: it returns once the delay is over and the
\* POST is made.
mock_gseal_api_awaits(i, body) ==
    /\ mock_recv' = [mock_recv EXCEPT ![i] = Append(@, body)]
    /\ LET v == MockGsealBody(body)
       IN  IF v.ok
           THEN /\ task_pc' = [task_pc EXCEPT ![i] = "posting"]
                /\ task_arg' = [task_arg EXCEPT ![i] = webhook_payload(v.model)]
                /\ slept' = [slept EXCEPT ![i] = Delay]
                /\ task_posts' = [task_posts EXCEPT ![i] = @ + 1]
                /\ lst_req' = [lst_req EXCEPT ![i] = Obj(webhook_payload(v.model))]
                /\ mock_resp' = [mock_resp EXCEPT ![i] =
                                   mock_gseal_api_result(webhook_payload(v.model))]
           ELSE /\ mock_resp' = [mock_resp EXCEPT ![i] = ValidationError]
                /\ UNCHANGED <<task_pc, task_arg, slept, task_posts, lst_req>>
    /\ UNCHANGED <<task_log, lst_recv, lst_resp>>

\* The endpoint takes a request with this body: 422 for a body that is no
\* MockGsealRequest; otherwise the handler, which has no suspension point,
\* chooses the payload, creates the Dispatcher task and returns.
mock_gseal_api(i, body) ==
    /\ mock_recv' = [mock_recv EXCEPT ![i] = Append(@, body)]
    /\ LET v == MockGsealBody(body)
       IN  IF v.ok
           THEN /\ task_pc' = [task_pc EXCEPT ![i] = "created"]
                /\ task_arg' = [task_arg EXCEPT ![i] = webhook_payload(v.model)]
                /\ mock_resp' = [mock_resp EXCEPT ![i] =
                                   mock_gseal_api_result(webhook_payload(v.model))]
           ELSE /\ mock_resp' = [mock_resp EXCEPT ![i] = ValidationError]
                /\ UNCHANGED <<task_pc, task_arg>>
    /\ UNCHANGED <<slept, task_posts, task_log, lst_vars>>

\* A client's call arrives at the Mock API.
client_mock_gseal_api(i, body) ==
    /\ Free(i)
    /\ entry' = [entry EXCEPT ![i] = "mock-gseal-api"]
    /\ mock_gseal_api(i, body)
    /\ UNCHANGED <<st_vars, mock_req>>

\* The request of start_test arrives at the Mock API.
internal_mock_gseal_api(i) ==
    /\ mock_req[i] # NoReq
    /\ mock_req' = [mock_req EXCEPT ![i] = NoReq]
    /\ mock_gseal_api(i, mock_req[i])
    /\ UNCHANGED <<entry, st_vars>>

-----------------------------------------------------------------------------
\* POST /app-webhook-listener

\* The value app_webhook_listener returns for a validated notification.
app_webhook_listener_result(notification) ==
    Response(200, Obj([status |-> Str("received"),
                       payload |-> Obj(model_to_dict(notification))]))

\* The endpoint takes a request with this body: 422 for a body that is no
\* WebhookNotification, the handler's answer otherwise.
app_webhook_listener(i, body) ==
    /\ lst_recv' = [lst_recv EXCEPT ![i] = Append(@, body)]
    /\ LET v == IF IsObj(body) THEN WebhookNotification(body.m)
                ELSE [ok |-> FALSE, model |-> Null]
       IN  lst_resp' = [lst_resp EXCEPT ![i] =
                          IF v.ok THEN app_webhook_listener_result(v.model)
                          ELSE ValidationError]

\* A client's call arrives at the Listener.
client_app_webhook_listener(i, body) ==
    /\ Free(i)
    /\ entry' = [entry EXCEPT ![i] = "app-webhook-listener"]
    /\ app_webhook_listener(i, body)
    /\ UNCHANGED <<st_vars, mock_vars, task_vars, lst_req>>

\* The request of a Dispatcher task arrives at the Listener.
internal_app_webhook_listener(i) ==
    /\ lst_req[i] # NoReq
    /\ lst_req' = [lst_req EXCEPT ![i] = NoReq]
    /\ app_webhook_listener(i, lst_req[i])
    /\ UNCHANGED <<entry, st_vars, mock_vars, task_vars>>

-----------------------------------------------------------------------------
\* dispatch_webhook

\* The task starts: the log line, then await asyncio.sleep(1).
dispatch_sleep(i) ==
    /\ task_pc[i] = "created"
    /\ task_pc' = [task_pc EXCEPT ![i] = "sleeping"]
    /\ UNCHANGED <<entry, st_vars, mock_vars, task_arg, slept, task_posts, task_log,
                   lst_vars>>

\* One unit of time passes for every sleeping task.
Tick ==
    /\ \E i \in Req : task_pc[i] = "sleeping" /\ slept[i] < Delay
    /\ slept' = [i \in Req |->
                   IF task_pc[i] = "sleeping" /\ slept[i] < Delay
                   THEN slept[i] + 1 ELSE slept[i]]
    /\ UNCHANGED <<entry, st_vars, mock_vars, task_pc, task_arg, task_posts,
                   task_log, lst_vars>>

\* dispatch_post sending the payload without its null values.
dispatch_post_exclude_none(i) ==
    /\ task_pc[i] = "sleeping"
    /\ slept[i] >= Delay
    /\ task_pc' = [task_pc EXCEPT ![i] = "posting"]
    /\ task_posts' = [task_posts EXCEPT ![i] = @ + 1]
    /\ lst_req' = [lst_req EXCEPT ![i] = Obj(model_to_dict(task_arg[i]))]
    /\ UNCHANGED <<entry, st_vars, mock_vars, task_arg, slept, task_log,
                   lst_recv, lst_resp>>

\* dispatch_post reading the payload from a variable all tasks share, which
\* holds the payload of the task created last.
dispatch_post_shared(i) ==
    /\ task_pc[i] = "sleeping"
    /\ slept[i] >= Delay
    /\ task_pc' = [task_pc EXCEPT ![i] = "posting"]
    /\ task_posts' = [task_posts EXCEPT ![i] = @ + 1]
    /\ LET last == CHOOSE j \in Req :
                       /\ task_pc[j] # "none"
                       /\ \A k \in Req : task_pc[k] # "none" => k <= j
       IN  lst_req' = [lst_req EXCEPT ![i] = Obj(task_arg[last])]
    /\ UNCHANGED <<entry, st_vars, mock_vars, task_arg, slept, task_log,
                   lst_recv, lst_resp>>

\* dispatch_post without the await of the sleep: the task posts as soon as it
\* runs, whatever time has passed.
dispatch_post_no_sleep(i) ==
    /\ task_pc[i] = "sleeping"
    /\ task_pc' = [task_pc EXCEPT ![i] = "posting"]
    /\ task_posts' = [task_posts EXCEPT ![i] = @ + 1]
    /\ lst_req' = [lst_req EXCEPT ![i] = Obj(task_arg[i])]
    /\ UNCHANGED <<entry, st_vars, mock_vars, task_arg, slept, task_log,
                   lst_recv, lst_resp>>

\* The sleep is over: await client.post("/app-webhook-listener", json=webhook_payload).
dispatch_post(i) ==
    /\ task_pc[i] = "sleeping"
    /\ slept[i] >= Delay
    /\ task_pc' = [task_pc EXCEPT ![i] = "posting"]
    /\ task_posts' = [task_posts EXCEPT ![i] = @ + 1]
    /\ lst_req' = [lst_req EXCEPT ![i] = Obj(task_arg[i])]
    /\ UNCHANGED <<entry, st_vars, mock_vars, task_arg, slept, task_log,
                   lst_recv, lst_resp>>

\* What the task logs of a response: response.json(), or response.text when
\* the body is not JSON.
logged(response) == [status |-> response.code, payload |-> response.body]

\* dispatch_log sending the POST again when the Listener's status is an error.
dispatch_log_retry(i) ==
    /\ task_pc[i] = "posting"
    /\ lst_resp[i] # NoResp
    /\ IF lst_resp[i].code >= 400
       THEN /\ lst_req' = [lst_req EXCEPT ![i] = Obj(task_arg[i])]
            /\ lst_resp' = [lst_resp EXCEPT ![i] = NoResp]
            /\ task_posts' = [task_posts EXCEPT ![i] = @ + 1]
            /\ UNCHANGED <<task_pc, task_log, lst_recv>>
       ELSE /\ task_pc' = [task_pc EXCEPT ![i] = "done"]
            /\ task_log' = [task_log EXCEPT ![i] = logged(lst_resp[i])]
            /\ UNCHANGED <<task_posts, lst_vars>>
    /\ UNCHANGED <<entry, st_vars, mock_vars, task_arg, slept>>

\* client.post has returned, whatever the status: the task logs and ends.
dispatch_log(i) ==
    /\ task_pc[i] = "posting"
    /\ lst_resp[i] # NoResp
    /\ task_pc' = [task_pc EXCEPT ![i] = "done"]
    /\ task_log' = [task_log EXCEPT ![i] = logged(lst_resp[i])]
    /\ UNCHANGED <<entry, st_vars, mock_vars, task_arg, slept, task_posts, lst_vars>>

-----------------------------------------------------------------------------
\* Failures of the internal hops

\* The internal call of start_test is answered with a non-success status
\* without the Mock API handler having run.
mock_gseal_api_unavailable(i) ==
    /\ mock_req[i] # NoReq
    /\ mock_req' = [mock_req EXCEPT ![i] = NoReq]
    /\ mock_resp' = [mock_resp EXCEPT ![i] = ServiceUnavailable]
    /\ UNCHANGED <<entry, st_vars, mock_recv, task_vars, lst_vars>>

\* dispatch_post_raises with the exception reaching the Mock API call that
\* made the task, as it would had the handler awaited the task.
dispatch_post_raises_propagates(i) ==
    /\ task_pc[i] = "posting"
    /\ lst_req[i] # NoReq
    /\ lst_req' = [lst_req EXCEPT ![i] = NoReq]
    /\ task_pc' = [task_pc EXCEPT ![i] = "failed"]
    /\ mock_resp' = [mock_resp EXCEPT ![i] = InternalServerError]
    /\ UNCHANGED <<entry, st_vars, mock_req, mock_recv, task_arg, slept, task_posts,
                   task_log, lst_recv, lst_resp>>

\* The Dispatcher's client.post raises (network error, timeout) before the
\* Listener has the request: nothing catches it and the task ends.
dispatch_post_raises(i) ==
    /\ task_pc[i] = "posting"
    /\ lst_req[i] # NoReq
    /\ lst_req' = [lst_req EXCEPT ![i] = NoReq]
    /\ task_pc' = [task_pc EXCEPT ![i] = "failed"]
    /\ UNCHANGED <<entry, st_vars, mock_vars, task_arg, slept, task_posts,
                   task_log, lst_recv, lst_resp>>

-----------------------------------------------------------------------------
\* Specifications

\* The steps of the server that no client call starts.
ServerStep(i) ==
    \/ internal_mock_gseal_api(i)
    \/ start_test_return(i)
    \/ dispatch_sleep(i)
    \/ dispatch_post(i)
    \/ internal_app_webhook_listener(i)
    \/ dispatch_log(i)

ClientStep(i) ==
    \/ \E body \in StartBodies : start_test(i, body)
    \/ \E body \in MockBodies : client_mock_gseal_api(i, body)
    \/ \E body \in ListenerBodies : client_app_webhook_listener(i, body)

FaultStep(i) ==
    \/ mock_gseal_api_unavailable(i)
    \/ dispatch_post_raises(i)

\* What the event loop does by itself: it runs a coroutine that can run, or
\* time passes for the sleeping ones.
LoopStep == (\E i \in Req : ServerStep(i)) \/ Tick

\* The server with its in-process client: no hop fails.
Next ==
    \/ \E i \in Req : ClientStep(i)
    \/ LoopStep

Spec == Init /\ [][Next]_vars

\* The event loop does not stop while a coroutine can run or a sleep is not over.
Fairness == WF_vars(LoopStep)

FairSpec == Spec /\ Fairness

\* The same server when the internal hops may fail.
NextFault ==
    \/ Next
    \/ \E i \in Req : FaultStep(i)

FaultSpec == Init /\ [][NextFault]_vars

FairFaultSpec == FaultSpec /\ Fairness

-----------------------------------------------------------------------------
\* Claims

\* Mock API call i was accepted: the handler ran and answered 200.
Accepted(i) == mock_resp[i].code = 200

\* The webhook_payload of the Mock API's response to call i.
Returned(i) == mock_resp[i].body.m.webhook_payload

\* C1: every accepted call to /mock-gseal-api leads, once the delay has
\* elapsed, to exactly one POST received by /app-webhook-listener, whose body
\* is the webhook_payload the Mock API returned for the call: never more than
\* one, none before the delay is over, and in the end one for every call.
C1_OneDelivery ==
    /\ [](\A i \in Req : Accepted(i) =>
            /\ Len(lst_recv[i]) <= 1
            /\ lst_recv[i] # <<>> =>
                 /\ lst_recv[i][1] = Returned(i)
                 /\ slept[i] >= Delay)
    /\ <>[](\A i \in Req : Accepted(i) => Len(lst_recv[i]) = 1)

\* An accepted direct call with an override has had its one delivery.
C1_Witness ==
    \E i \in Req :
        /\ entry[i] = "mock-gseal-api"
        /\ Accepted(i)
        /\ Returned(i) = Obj(EmptyMap)
        /\ lst_recv[i] = <<Obj(EmptyMap)>>

\* The payload a /start-test call with this body is to have delivered: the
\* override when the body has one, else the payload made from its
\* mock_payload, which is {document_id: "demo-document"} when it has none.
OwnPayload(body) ==
    LET m == IF body = Absent THEN EmptyMap ELSE body.m
    IN  IF "webhook_payload" \in DOMAIN m /\ IsObj(m.webhook_payload)
        THEN m.webhook_payload.m
        ELSE [event |-> Str("mock.document.completed"),
              data |-> Obj([status |-> Str("completed"),
                            original_payload |->
                                IF "mock_payload" \in DOMAIN m THEN m.mock_payload
                                ELSE Obj([document_id |-> Str("demo-document")])])]

\* /start-test call i has a valid body: its handler ran.
Started(i) == entry[i] = "start-test" /\ st_posts[i] > 0

\* C2: every /start-test call, whatever other calls overlap it, gets its own
\* Dispatcher task and exactly one Listener call, carrying the payload of its
\* own run: never two, never another run's payload, and in the end one for
\* every call.
C2_NoCrossTalk ==
    /\ [](\A i \in Req : Started(i) =>
            /\ Len(lst_recv[i]) <= 1
            /\ task_pc[i] # "none" => task_arg[i] = OwnPayload(st_req[i])
            /\ lst_recv[i] # <<>> => lst_recv[i][1] = Obj(OwnPayload(st_req[i])))
    /\ <>[](\A i \in Req : Started(i) => task_pc[i] = "done" /\ Len(lst_recv[i]) = 1)

\* Two /start-test calls with different payloads whose handlers are both
\* still awaiting the Mock API's response when both deliveries have been made.
C2_Witness ==
    /\ MaxReq >= 2
    /\ Started(1) /\ Started(2)
    /\ st_pc[1] = "awaiting" /\ st_pc[2] = "awaiting"
    /\ OwnPayload(st_req[1]) # OwnPayload(st_req[2])
    /\ lst_recv[1] = <<Obj(OwnPayload(st_req[1]))>>
    /\ lst_recv[2] = <<Obj(OwnPayload(st_req[2]))>>

\* C3: the Mock API handler returns its response without waiting for the
\* delay or the dispatch: when the response is made the task of the call has
\* neither slept nor posted, and a Dispatcher task posts only after the
\* response of its call has been made.
C3_ResponseBeforePost ==
    [][\A i \in Req :
         /\ task_posts'[i] > task_posts[i] => Accepted(i)
         /\ mock_resp'[i] # mock_resp[i] =>
              /\ task_posts'[i] = 0
              /\ slept'[i] = 0
              /\ lst_recv'[i] = <<>>]_vars

\* The caller of /start-test has the whole answer while the Dispatcher task of
\* the call is still in its delay.
C3_Witness ==
    \E i \in Req :
        /\ Accepted(i)
        /\ st_pc[i] = "done" /\ st_resp[i].code = 200
        /\ task_pc[i] = "sleeping" /\ slept[i] = 0

\* A body /mock-gseal-api accepts: a mapping whose mock_payload, if any, is a
\* mapping and whose webhook_payload, if any, is a mapping or null.
MockBodyOk(body) ==
    /\ IsObj(body)
    /\ "mock_payload" \in DOMAIN body.m => IsObj(body.m.mock_payload)
    /\ "webhook_payload" \in DOMAIN body.m =>
           body.m.webhook_payload = Null \/ IsObj(body.m.webhook_payload)

\* The body supplies an override / supplies none (omitted or null).
HasOverride(body) ==
    "webhook_payload" \in DOMAIN body.m /\ IsObj(body.m.webhook_payload)

\* The payload synthesized from a body without override.
Synthesized(body) ==
    [event |-> Str("mock.document.completed"),
     data |-> Obj([status |-> Str("completed"),
                   original_payload |->
                       IF "mock_payload" \in DOMAIN body.m THEN body.m.mock_payload
                       ELSE Obj(EmptyMap)])]

\* The body the Mock API took for slot i.
MockBody(i) == mock_recv[i][1]

\* C4: for a request without webhook_payload (omitted or null) the Mock API
\* returns and schedules exactly {event: "mock.document.completed",
\* data: {status: "completed", original_payload: M}}, M the request's
\* mock_payload, the empty mapping when it is omitted.
C4_Synthesized ==
    \A i \in Req :
        (/\ mock_recv[i] # <<>>
         /\ MockBodyOk(MockBody(i))
         /\ ~HasOverride(MockBody(i)))
        => /\ mock_resp[i] =
                Response(200, Obj([status |-> Str("webhook_scheduled"),
                                   webhook_payload |-> Obj(Synthesized(MockBody(i)))]))
           /\ task_pc[i] # "none"
           /\ task_arg[i] = Synthesized(MockBody(i))

\* A direct call with mock_payload {document_id: "doc-1"} and a null
\* webhook_payload has been answered and its payload scheduled.
C4_Witness ==
    \E i \in Req :
        /\ entry[i] = "mock-gseal-api"
        /\ mock_recv[i] = <<Obj([mock_payload |-> Obj(Doc1), webhook_payload |-> Null])>>
        /\ Accepted(i)
        /\ task_arg[i] = [event |-> Str("mock.document.completed"),
                          data |-> Obj([status |-> Str("completed"),
                                        original_payload |-> Obj(Doc1)])]

\* C5: for a request with a webhook_payload override, whatever mapping it is,
\* the payload in the Mock API's response and the payload handed to the
\* Dispatcher are the override itself.
C5_OverrideVerbatim ==
    \A i \in Req :
        (/\ mock_recv[i] # <<>>
         /\ MockBodyOk(MockBody(i))
         /\ HasOverride(MockBody(i)))
        => /\ mock_resp[i] =
                Response(200, Obj([status |-> Str("webhook_scheduled"),
                                   webhook_payload |-> MockBody(i).m.webhook_payload]))
           /\ task_pc[i] # "none"
           /\ task_arg[i] = MockBody(i).m.webhook_payload.m

\* A direct call whose override is the empty mapping has been answered with
\* the empty mapping, which is also what the Dispatcher got.
C5_Witness ==
    \E i \in Req :
        /\ entry[i] = "mock-gseal-api"
        /\ mock_recv[i] = <<Obj([mock_payload |-> Obj(Doc1), webhook_payload |-> Obj(EmptyMap)])>>
        /\ Accepted(i)
        /\ Returned(i) = Obj(EmptyMap)
        /\ task_arg[i] = EmptyMap

\* The body the Listener answered last for slot i.
Received(i) == lst_recv[i][Len(lst_recv[i])]

\* C6 as stated: the payload of every 200 answer of the Listener is the
\* received body itself, no key dropped, none added, no value changed.
C6_PureEcho ==
    \A i \in Req :
        lst_resp[i].code = 200 =>
            lst_resp[i].body = Obj([status |-> Str("received"), payload |-> Received(i)])

\* C6, amended: the payload of every 200 answer of the Listener has exactly
\* the keys event and data: event is the body's event, or
\* "mock.document.completed" when the body has none; data is the body's data
\* with all its values (nulls too), or the empty mapping when the body has
\* none; other keys of the body are dropped.  The answer is the body itself
\* when the body has exactly the keys event and data.
C6_EchoOfNotification ==
    \A i \in Req :
        lst_resp[i].code = 200 =>
            LET b == Received(i).m
                p == [event |-> IF "event" \in DOMAIN b THEN b.event
                                ELSE Str("mock.document.completed"),
                      data |-> IF "data" \in DOMAIN b THEN b.data ELSE Obj(EmptyMap)]
            IN  /\ lst_resp[i].body = Obj([status |-> Str("received"), payload |-> Obj(p)])
                /\ DOMAIN b = {"event", "data"} => p = b

\* The Listener has answered a direct call whose body has no event and a null
\* inside data.
C6_Witness ==
    \E i \in Req :
        /\ entry[i] = "app-webhook-listener"
        /\ lst_recv[i] = <<Obj([data |-> Obj([a |-> Null])])>>
        /\ lst_resp[i].code = 200

\* A body /start-test accepts: none, or a mapping whose mock_payload, if any,
\* is a mapping and whose webhook_payload, if any, is a mapping or null.
ValidStart(body) ==
    \/ body = Absent
    \/ /\ IsObj(body)
       /\ "mock_payload" \in DOMAIN body.m => IsObj(body.m.mock_payload)
       /\ "webhook_payload" \in DOMAIN body.m =>
              body.m.webhook_payload = Null \/ IsObj(body.m.webhook_payload)

Success(code) == 200 <= code /\ code <= 299

\* C7: for every valid StartRequest body (none, empty, with an override)
\* /start-test issues exactly one POST to /mock-gseal-api, and it returns 200
\* with {status: "mock_request_dispatched", mock_api_response: R}, R the JSON
\* the Mock API answered; until it returns, the Mock API call is pending or
\* answered with success, so the return is not held up.
C7_StartTestSucceeds ==
    \A i \in Req :
        (entry[i] = "start-test" /\ ValidStart(st_req[i])) =>
            /\ st_posts[i] = 1
            /\ st_pc[i] \in {"awaiting", "done"}
            /\ st_pc[i] = "awaiting" => (mock_req[i] # NoReq \/ Accepted(i))
            /\ st_pc[i] = "done" =>
                 /\ Accepted(i)
                 /\ st_resp[i] =
                      Response(200, Obj([status |-> Str("mock_request_dispatched"),
                                         mock_api_response |-> mock_resp[i].body]))

\* A /start-test call without body and one with an override have both
\* returned.
C7_Witness ==
    \E i, j \in Req :
        /\ entry[i] = "start-test" /\ st_req[i] = Absent
        /\ st_pc[i] = "done" /\ st_resp[i].code = 200
        /\ entry[j] = "start-test" /\ st_req[j] = Obj([mock_payload |-> Obj(Doc1),
                                                    webhook_payload |-> Obj(BadShape)])
        /\ st_pc[j] = "done" /\ st_resp[j].code = 200

\* C8: when the internal call to the Mock API is answered with a non-success
\* status, /start-test does not return its success marker: its caller gets a
\* non-2xx answer.
C8_FailurePropagates ==
    \A i \in Req :
        (/\ entry[i] = "start-test"
         /\ mock_resp[i] # NoResp
         /\ ~Success(mock_resp[i].code)) =>
            /\ st_pc[i] \in {"awaiting", "done"}
            /\ st_pc[i] = "awaiting" => st_resp[i] = NoResp
            /\ st_pc[i] = "done" =>
                 /\ ~Success(st_resp[i].code)
                 /\ st_resp[i].code >= 400
                 /\ ~IsObj(st_resp[i].body)

\* A /start-test call whose internal call was answered 503 has returned.
C8_Witness ==
    \E i \in Req :
        /\ entry[i] = "start-test"
        /\ mock_resp[i].code = 503
        /\ st_pc[i] = "done"

\* Everything of the state but the pc and the request in flight of task i.
OthersUnchanged(i) ==
    /\ UNCHANGED <<entry, st_vars, mock_vars, task_arg, slept, task_posts, task_log,
                   lst_recv, lst_resp>>
    /\ \A j \in Req \ {i} : task_pc'[j] = task_pc[j] /\ lst_req'[j] = lst_req[j]

\* C9: a Dispatcher task that fails ends alone.  The step that fails it
\* changes nothing but the task itself: the Mock API call that made it has
\* its 200 response, which stays what it was, and no other request or task is
\* touched; and the /start-test call that led to the task returns its success
\* answer all the same.
C9_FailureIsolated ==
    /\ [][\A i \in Req :
            (task_pc[i] # "failed" /\ task_pc'[i] = "failed") =>
                (Accepted(i) /\ OthersUnchanged(i))]_vars
    /\ [](\A i \in Req :
            (task_pc[i] = "failed" /\ entry[i] = "start-test") =>
                /\ Accepted(i)
                /\ st_pc[i] \in {"awaiting", "done"}
                /\ st_pc[i] = "done" =>
                     st_resp[i] =
                       Response(200, Obj([status |-> Str("mock_request_dispatched"),
                                          mock_api_response |-> mock_resp[i].body])))

\* The task of a /start-test call has failed, the call has returned 200, and
\* the task of another call has run to its end.
C9_Witness ==
    \E i, j \in Req :
        /\ i # j
        /\ entry[i] = "start-test"
        /\ task_pc[i] = "failed"
        /\ st_pc[i] = "done" /\ st_resp[i].code = 200
        /\ task_pc[j] = "done"

\* C10: no retries.  A Dispatcher task issues at most one POST to the
\* Listener and /start-test at most one POST to the Mock API, whatever the
\* outcome; a Listener answer with a non-success status does not fail the
\* task: it ends normally, having logged that status and body.
C10_NoRetries ==
    \A i \in Req :
        /\ task_posts[i] <= 1
        /\ st_posts[i] <= 1
        /\ Len(lst_recv[i]) <= 1
        /\ (task_posts[i] = 1 /\ lst_resp[i] # NoResp /\ ~Success(lst_resp[i].code)) =>
              /\ task_pc[i] \in {"posting", "done"}
              /\ task_pc[i] = "done" =>
                   task_log[i] = [status |-> lst_resp[i].code, payload |-> lst_resp[i].body]

\* A task whose POST the Listener answered 422 has ended, having logged 422.
C10_Witness ==
    \E i \in Req :
        /\ task_pc[i] = "done"
        /\ task_posts[i] = 1
        /\ lst_resp[i].code = 422
        /\ task_log[i].status = 422

\* The mapping of the body of /start-test call i: empty for a call without body.
StartMap(i) == IF st_req[i] = Absent THEN EmptyMap ELSE st_req[i].m

\* The body /start-test call i forwarded to the Mock API: on its way, or taken.
Forwarded(i) == IF mock_req[i] # NoReq THEN mock_req[i] ELSE MockBody(i)

\* The caller gave field k a value that is not null.
SetByCaller(i, k) == k \in DOMAIN StartMap(i) /\ StartMap(i)[k] # Null

\* C11 as stated: the body /start-test forwards to the Mock API has the
\* fields the caller set to a value, with that value, and no other: a field
\* the caller omitted or set to null is absent from it, mock_payload as much
\* as webhook_payload.
C11_OmitsUnset ==
    \A i \in Req : Started(i) =>
        \A k \in {"mock_payload", "webhook_payload"} :
            IF SetByCaller(i, k)
            THEN k \in DOMAIN Forwarded(i).m /\ Forwarded(i).m[k] = StartMap(i)[k]
            ELSE k \notin DOMAIN Forwarded(i).m

\* C11, amended: the body /start-test forwards is the StartRequest with its
\* defaults applied, less the fields whose value is null.  mock_payload is
\* always in it: the caller's, or {document_id: "demo-document"} when the
\* caller sent none.  webhook_payload is in it exactly when the caller gave
\* an override; omitted or null, it is absent.  No other key is in it.
C11_ForwardedBody ==
    \A i \in Req : Started(i) =>
        /\ IsObj(Forwarded(i))
        /\ DOMAIN Forwarded(i).m =
              {"mock_payload"} \cup
              (IF SetByCaller(i, "webhook_payload") THEN {"webhook_payload"} ELSE {})
        /\ Forwarded(i).m.mock_payload =
              (IF "mock_payload" \in DOMAIN StartMap(i) THEN StartMap(i).mock_payload
               ELSE Obj([document_id |-> Str("demo-document")]))
        /\ SetByCaller(i, "webhook_payload") =>
              Forwarded(i).m.webhook_payload = StartMap(i).webhook_payload

\* The Mock API has taken the body forwarded for a /start-test call whose
\* body is {webhook_payload: null}: it has the default mock_payload and no
\* webhook_payload.
C11_Witness ==
    \E i \in Req :
        /\ Started(i)
        /\ st_req[i] = Obj([webhook_payload |-> Null])
        /\ mock_recv[i] = <<Obj([mock_payload |-> Obj([document_id |-> Str("demo-document")])])>>

\* The task has ended: it returned after its POST, or an exception ended it.
Terminal(i) == task_pc[i] \in {"done", "failed"}

\* The moves of a Dispatcher task: made, started on its sleep, POST issued,
\* ended.
TaskMoves ==
    { <<"none", "created">>, <<"created", "sleeping">>, <<"sleeping", "posting">>,
      <<"posting", "done">>, <<"posting", "failed">> }

\* C12: a Dispatcher task moves only forward, scheduled -> POST issued ->
\* ended (returned or failed): it issues its POST only when its delay has
\* elapsed, it never goes back to scheduled, an ended task stays ended and
\* nothing ends it before its POST (no cancellation); a task that returned has
\* issued its one POST; and under fair scheduling every task made is in the
\* end returned or failed, none stays scheduled.
C12_TaskTerminates ==
    /\ [][\A i \in Req :
            /\ task_pc'[i] # task_pc[i] => <<task_pc[i], task_pc'[i]>> \in TaskMoves
            /\ task_posts'[i] # task_posts[i] =>
                  /\ task_pc[i] = "sleeping" /\ task_pc'[i] = "posting"
                  /\ slept[i] >= Delay
                  /\ task_posts'[i] = task_posts[i] + 1
            /\ task_pc'[i] = "posting" /\ task_pc[i] # "posting" =>
                  task_posts'[i] = task_posts[i] + 1]_vars
    /\ [](\A i \in Req :
            /\ task_pc[i] \in {"none", "created"} => slept[i] = 0 /\ task_posts[i] = 0
            /\ task_pc[i] = "sleeping" => task_posts[i] = 0
            /\ task_pc[i] \in {"posting", "done", "failed"} =>
                  task_posts[i] = 1 /\ slept[i] >= Delay)
    /\ <>[](\A i \in Req : task_pc[i] # "none" => Terminal(i))

\* Of two tasks made by direct calls, both past their delay and their POST,
\* one has returned with the Listener's 200 logged and the other has failed.
C12_Witness ==
    \E i, j \in Req :
        /\ entry[i] = "mock-gseal-api" /\ entry[j] = "mock-gseal-api"
        /\ task_pc[i] = "done" /\ task_posts[i] = 1 /\ task_log[i].status = 200
        /\ task_pc[j] = "failed" /\ task_posts[j] = 1 /\ slept[j] = Delay

\* {document_id: "demo-document"}
DemoDocument == Obj([document_id |-> Str("demo-document")])

\* The notification of the default run.
DemoNotification ==
    Obj([event |-> Str("mock.document.completed"),
         data |-> Obj([status |-> Str("completed"), original_payload |-> DemoDocument])])

\* /start-test call i has no body or the empty body.
DefaultRun(i) == entry[i] = "start-test" /\ st_req[i] \in {Absent, Obj(EmptyMap)}

\* C13: end to end for a POST /start-test with no body or with the empty
\* body.  The Mock API receives mock_payload {document_id: "demo-document"};
\* the Listener receives one body, {event: "mock.document.completed",
\* data: {status: "completed", original_payload: {document_id:
\* "demo-document"}}}; /start-test returns that payload under
\* mock_api_response.webhook_payload; the Listener answers the Dispatcher with
\* that payload.  In the end all of this has happened.
C13_DefaultRun ==
    /\ [](\A i \in Req : DefaultRun(i) =>
            /\ mock_recv[i] # <<>> =>
                  mock_recv[i] = <<Obj([mock_payload |-> DemoDocument])>>
            /\ lst_recv[i] # <<>> => lst_recv[i] = <<DemoNotification>>
            /\ st_pc[i] = "done" =>
                  st_resp[i] =
                    Response(200, Obj([status |-> Str("mock_request_dispatched"),
                                       mock_api_response |->
                                           Obj([status |-> Str("webhook_scheduled"),
                                                webhook_payload |-> DemoNotification])]))
            /\ lst_resp[i] # NoResp =>
                  lst_resp[i] = Response(200, Obj([status |-> Str("received"),
                                                   payload |-> DemoNotification]))
            /\ task_pc[i] = "done" =>
                  task_log[i] = [status |-> 200,
                                 payload |-> Obj([status |-> Str("received"),
                                                  payload |-> DemoNotification])])
    /\ <>[](\A i \in Req : DefaultRun(i) =>
              /\ mock_recv[i] # <<>>
              /\ lst_recv[i] = <<DemoNotification>>
              /\ st_pc[i] = "done"
              /\ task_pc[i] = "done")

\* A call without body and a call with the empty body have both run to the
\* end: /start-test has returned and the Dispatcher has the Listener's echo.
C13_Witness ==
    \E i, j \in Req :
        /\ entry[i] = "start-test" /\ st_req[i] = Absent
        /\ entry[j] = "start-test" /\ st_req[j] = Obj(EmptyMap)
        /\ \A k \in {i, j} :
              /\ st_pc[k] = "done"
              /\ st_resp[k].body.m.mock_api_response.m.webhook_payload = DemoNotification
              /\ lst_recv[k] = <<DemoNotification>>
              /\ task_pc[k] = "done"
              /\ task_log[k].payload.m.payload = DemoNotification

\* The sum of f[i] over the slots.
SumOver(f) ==
    LET s[n \in 0..MaxReq] == IF n = 0 THEN 0 ELSE f[n] + s[n - 1]
    IN  s[MaxReq]

\* POSTs the Listener has received from Dispatcher tasks: the calls clients
\* make to the Listener themselves are not among them.
ListenerPosts ==
    SumOver([i \in Req |-> IF entry[i] = "app-webhook-listener" THEN 0
                           ELSE Len(lst_recv[i])])

\* Mock API calls accepted so far.
AcceptedCalls == Cardinality({i \in Req : Accepted(i)})

\* Mock API calls issued by /start-test handlers, and /start-test calls received.
StartPosts == SumOver(st_posts)
StartCalls == Cardinality({i \in Req : entry[i] = "start-test"})

\* C14: in every reachable state, failing hops included, the POSTs the
\* Listener has received from Dispatcher tasks are at most as many as the
\* Mock API calls accepted so far, and the Mock API calls issued by
\* /start-test handlers at most as many as the /start-test calls received.
C14_HopCounts ==
    /\ ListenerPosts <= AcceptedCalls
    /\ StartPosts <= StartCalls

\* Both counts are at their limit, one each, after a whole /start-test run,
\* while a client's own call to the Listener has been received and is not
\* counted.
C14_Witness ==
    /\ ListenerPosts = 1 /\ AcceptedCalls = 1
    /\ StartPosts = 1 /\ StartCalls = 1
    /\ \E i \in Req : entry[i] = "app-webhook-listener" /\ Len(lst_recv[i]) = 1

====
